---- MODULE Spec2Model ----
(***************************************************************************)
(* Model of src/flight_bot.py: the Telegram flight-alert bot.              *)
(*                                                                         *)
(*   - GerenciadorUsuarios  (user approval records, usuarios.json)         *)
(*   - GerenciadorAlertas   (alert registry, alertas.json)                 *)
(*   - the /novo_alerta ConversationHandler and the other handlers         *)
(*   - loop_verificacao     (the price-check thread)                       *)
(*                                                                         *)
(* An identity is a private chat: chat id = user id, so the conversation   *)
(* key (chat, user) and context.user_data are both indexed by the chat id. *)
(* Handlers run one update at a time (python-telegram-bot processes        *)
(* updates sequentially), so a handler is one atomic action.               *)
(***************************************************************************)
EXTENDS Integers, Sequences, FiniteSets, TLC

(***************************************************************************)
(* Program constants                                                       *)
(***************************************************************************)
\* ADMIN_CHAT_ID (an environment value in the source); any fixed chat id.
ADMIN_CHAT_ID == 1000

\* Two ordinary identities.
U1 == 7
U2 == 8

Identidades == {ADMIN_CHAT_ID, U1, U2}

\* AEROPORTOS.items() in the order of the dict (19 in the source, the first
\* three here), the codes only.
AEROPORTOS_items == <<"BEL", "BSB", "CNF">>

\* The codes of AEROPORTOS.
AEROPORTOS == {AEROPORTOS_items[i] : i \in DOMAIN AEROPORTOS_items}

\* The "any destination" code of the first destination button.
TODOS == "TODOS"

\* A code that is in no version of AEROPORTOS.
Desconhecido == "XXX"

\* ConversationHandler states; END is "no conversation" (ConversationHandler.END).
ORIGEM == "ORIGEM"
DESTINO == "DESTINO"
DATA == "DATA"
PRECO == "PRECO"
END == "END"
Aguardando == {ORIGEM, DESTINO, DATA, PRECO}

\* datetime.now().date() as <<ano, mes, dia>>.
Hoje == <<2026, 11, 5>>

(***************************************************************************)
(* Bounds of the model                                                     *)
(***************************************************************************)
\* Reads of the clock (alerts created) in Spec.
MaxRelogio == 1
\* AlertaPassagem objects constructed in SpecRegistro and in SpecAgendador.
MaxAlertasReg == 3
MaxAlertasAg == 2
\* Approval prompts (messages with the Aprovar/Negar buttons) kept per identity.
MaxPrompts == 2
\* Scheduler ticks in SpecAgendador.
MaxTicks == 2

(***************************************************************************)
(* Text of a date: the number fields of "DD/MM/AAAA" in order, <<25,12,2026>>;*)
(* a text with another number of fields does not match the format.         *)
(***************************************************************************)
Bissexto(ano) == (ano % 4 = 0 /\ ano % 100 /= 0) \/ ano % 400 = 0

DiasNoMes(mes, ano) ==
    IF mes = 2 THEN (IF Bissexto(ano) THEN 29 ELSE 28)
    ELSE IF mes \in {4, 6, 9, 11} THEN 30 ELSE 31

\* datetime.strptime(texto, "%d/%m/%Y") does not raise ValueError.
strptime_ok(texto) ==
    /\ Len(texto) = 3
    /\ texto[3] \in 1..9999
    /\ texto[2] \in 1..12
    /\ texto[1] \in 1..DiasNoMes(texto[2], texto[3])

\* The parsed date, <<ano, mes, dia>>: also data.strftime("%Y-%m-%d").
strptime(texto) == <<texto[3], texto[2], texto[1]>>

\* a < b on dates.
DataMenor(a, b) ==
    \/ a[1] < b[1]
    \/ a[1] = b[1] /\ a[2] < b[2]
    \/ a[1] = b[1] /\ a[2] = b[2] /\ a[3] < b[3]

\* The try block of receber_data does not raise: the text parses and is not past.
data_aceita(texto) ==
    /\ strptime_ok(texto)
    /\ ~DataMenor(strptime(texto), Hoje)

(***************************************************************************)
(* Text of a price: a sequence of characters.                              *)
(***************************************************************************)
Digitos == <<"0", "1", "2", "3", "4", "5", "6", "7", "8", "9">>

EhDigito(c) == \E i \in 1..10 : Digitos[i] = c

ValorDigito(c) == (CHOOSE i \in 1..10 : Digitos[i] = c) - 1

RECURSIVE TiraEsquerda(_)
TiraEsquerda(s) ==
    IF s /= <<>> /\ Head(s) = " " THEN TiraEsquerda(Tail(s)) ELSE s

RECURSIVE TiraDireita(_)
TiraDireita(s) ==
    IF s /= <<>> /\ s[Len(s)] = " " THEN TiraDireita(SubSeq(s, 1, Len(s) - 1)) ELSE s

\* str.strip()
strip(s) == TiraDireita(TiraEsquerda(s))

\* str.replace("R$", "")
RECURSIVE replace_rs(_)
replace_rs(s) ==
    IF Len(s) < 2 THEN s
    ELSE IF s[1] = "R" /\ s[2] = "$" THEN replace_rs(SubSeq(s, 3, Len(s)))
    ELSE <<Head(s)>> \o replace_rs(Tail(s))

\* str.replace(",", ".")
replace_virgula(s) == [i \in 1..Len(s) |-> IF s[i] = "," THEN "." ELSE s[i]]

\* str.replace(" ", "")
RECURSIVE replace_espaco(_)
replace_espaco(s) ==
    IF s = <<>> THEN s
    ELSE IF Head(s) = " " THEN replace_espaco(Tail(s))
    ELSE <<Head(s)>> \o replace_espaco(Tail(s))

\* update.message.text.strip().replace("R$", "").replace(",", ".").replace(" ", "")
normaliza_preco(texto) == replace_espaco(replace_virgula(replace_rs(strip(texto))))

SemSinal(s) == IF s /= <<>> /\ Head(s) \in {"-", "+"} THEN Tail(s) ELSE s

Pontos(s) == {i \in 1..Len(s) : s[i] = "."}

\* float(s) does not raise ValueError, for the decimal notation: an optional
\* sign, digits, at most one point, at least one digit.
float_ok(s) ==
    LET m == SemSinal(s) IN
    /\ \A i \in 1..Len(m) : EhDigito(m[i]) \/ m[i] = "."
    /\ Cardinality(Pontos(m)) <= 1
    /\ \E i \in 1..Len(m) : EhDigito(m[i])

RECURSIVE Inteiro(_)
Inteiro(s) == IF s = <<>> THEN 0 ELSE 10 * Inteiro(SubSeq(s, 1, Len(s) - 1)) + ValorDigito(s[Len(s)])

\* float(s) in hundredths (the texts of the model have at most two decimals).
float(s) ==
    LET m == SemSinal(s)
        p == IF Pontos(m) = {} THEN Len(m) + 1 ELSE CHOOSE i \in Pontos(m) : TRUE
        int == Inteiro(SubSeq(m, 1, p - 1))
        dec == SubSeq(m, p + 1, Len(m))
        cent == IF Len(dec) = 0 THEN 0
                ELSE IF Len(dec) = 1 THEN 10 * Inteiro(dec)
                ELSE Inteiro(SubSeq(dec, 1, 2))
        v == 100 * int + cent
    IN IF s /= <<>> /\ Head(s) = "-" THEN 0 - v ELSE v

\* The try block of receber_preco does not raise: the text parses to a number > 0.
preco_aceito(texto) ==
    /\ float_ok(normaliza_preco(texto))
    /\ float(normaliza_preco(texto)) > 0

(***************************************************************************)
(* State                                                                   *)
(***************************************************************************)
VARIABLES
    usuarios,    \* the GerenciadorUsuarios object: [usuarios: its dict, arquivo: usuarios.json]
    gerenciador, \* the GerenciadorAlertas object: [alertas: its list, arquivo: alertas.json]
    relogio,     \* datetime.now(): the value of the next reading of the clock
    prox_oid,    \* the identity of the next AlertaPassagem object constructed
    conv,        \* the ConversationHandler's state of each identity
    user_data,   \* context.user_data of each identity
    prompts,     \* per identity, the messages in the administrator's chat that
                 \* still show its Aprovar/Negar buttons
    saida,       \* the last message the bot sent or edited: [para, texto]
    corrida,     \* history: per identity, the inputs its handlers accepted since
                 \* its last /novo_alerta, and the value of prox_oid at that command
    menus,       \* per identity, the messages of its chat that show destination
                 \* buttons, each as the origin its menu was built for
    fonte,       \* the flight search service: the prices it has for each destination
    ag_pc,       \* loop_verificacao: the statement the thread is at
    ag_tick,     \* loop_verificacao: the number of the current pass of the while loop
    ag_fila,     \* loop_verificacao: the alerts of this pass still to visit, the first being visited
    ag_ofertas,  \* loop_verificacao: ofertas, for the alert being visited
    ag_dump,     \* loop_verificacao, inside salvar: the list that json.dump is writing
    enviadas,    \* the offer messages delivered: [oid, chat_id, tick, ofertas] each
    perdidas     \* the offer messages whose send raised: [oid, tick] each

vars == <<usuarios, gerenciador, relogio, prox_oid, conv, user_data, prompts, saida, corrida, menus,
         fonte, ag_pc, ag_tick, ag_fila, ag_ofertas, ag_dump, enviadas, perdidas>>

\* None
SemHora == 0 - 1

\* An empty dict.
Vazio == [k \in {} |-> 0]

Msg(para, texto) == [para |-> para, texto |-> texto]

(***************************************************************************)
(* GerenciadorUsuarios.  A record of the dict holds the status only (nome, *)
(* username and the two timestamps are written and never read by a branch).*)
(***************************************************************************)
\* GerenciadorUsuarios.status
status(g, chat_id) ==
    IF chat_id \in DOMAIN g.usuarios THEN g.usuarios[chat_id].status ELSE "desconhecido"

\* GerenciadorUsuarios.salvar: the file holds the dict.
salvar_usuarios(g) == [g EXCEPT !.arquivo = g.usuarios]

\* Mutant of registrar: a denied identity that registers again is pending again.
registrar_renova(g, chat_id) ==
    IF chat_id \notin DOMAIN g.usuarios \/ status(g, chat_id) = "negado"
    THEN salvar_usuarios([g EXCEPT !.usuarios = (chat_id :> [status |-> "pendente"]) @@ g.usuarios])
    ELSE g

\* GerenciadorUsuarios.registrar: the object afterwards.
registrar(g, chat_id) ==
    IF chat_id \notin DOMAIN g.usuarios
    THEN salvar_usuarios([g EXCEPT !.usuarios = (chat_id :> [status |-> "pendente"]) @@ g.usuarios])
    ELSE g

\* GerenciadorUsuarios.registrar: the value returned.
registrar_resultado(g, chat_id) ==
    IF chat_id \notin DOMAIN g.usuarios THEN "novo" ELSE g.usuarios[chat_id].status

\* GerenciadorUsuarios.aprovar
aprovar(g, chat_id) ==
    IF chat_id \in DOMAIN g.usuarios
    THEN salvar_usuarios([g EXCEPT !.usuarios[chat_id].status = "aprovado"])
    ELSE g

\* GerenciadorUsuarios.negar
negar(g, chat_id) ==
    IF chat_id \in DOMAIN g.usuarios
    THEN salvar_usuarios([g EXCEPT !.usuarios[chat_id].status = "negado"])
    ELSE g

\* GerenciadorUsuarios.eh_aprovado
eh_aprovado(g, chat_id) ==
    IF chat_id = ADMIN_CHAT_ID THEN TRUE ELSE status(g, chat_id) = "aprovado"

\* GerenciadorUsuarios.pendentes: the chat ids of the records listed.
usuarios_pendentes(g) == {c \in DOMAIN g.usuarios : g.usuarios[c].status = "pendente"}

(***************************************************************************)
(* GerenciadorAlertas.  An element of the list is an AlertaPassagem object:*)
(* its dataclass fields and oid, the object's identity (not a field: it is *)
(* not compared by ==, and not written to the file).  origem and destino   *)
(* (the display names) travel with the codes and are left out.             *)
(***************************************************************************)
\* Mutant of AlertaPassagem: origin and destination passed in each other's place.
AlertaPassagem_trocado(oid, chat_id, codigo_origem, codigo_destino, preco_maximo, data_partida, agora) ==
    [oid |-> oid, chat_id |-> chat_id, codigo_origem |-> codigo_destino,
     codigo_destino |-> codigo_origem, preco_maximo |-> preco_maximo,
     data_partida |-> data_partida, ativo |-> TRUE, criado_em |-> agora,
     ultimo_alerta |-> 0 - 1]

\* AlertaPassagem(...): ativo and ultimo_alerta take their defaults, criado_em the clock.
AlertaPassagem(oid, chat_id, codigo_origem, codigo_destino, preco_maximo, data_partida, agora) ==
    [oid |-> oid, chat_id |-> chat_id, codigo_origem |-> codigo_origem,
     codigo_destino |-> codigo_destino, preco_maximo |-> preco_maximo,
     data_partida |-> data_partida, ativo |-> TRUE, criado_em |-> agora,
     ultimo_alerta |-> SemHora]

\* dataclasses.asdict(a)
asdict(a) == [f \in DOMAIN a \ {"oid"} |-> a[f]]

\* GerenciadorAlertas.salvar: the file holds asdict of every element.
salvar(g) == [g EXCEPT !.arquivo = [i \in 1..Len(g.alertas) |-> asdict(g.alertas[i])]]

\* GerenciadorAlertas.adicionar
adicionar(g, alerta) == salvar([g EXCEPT !.alertas = Append(g.alertas, alerta)])

RECURSIVE Filtra(_, _, _)
Filtra(s, chat_id, todos) ==
    IF s = <<>> THEN <<>>
    ELSE IF (todos \/ Head(s).chat_id = chat_id) /\ Head(s).ativo
         THEN <<Head(s)>> \o Filtra(Tail(s), chat_id, todos)
         ELSE Filtra(Tail(s), chat_id, todos)

\* GerenciadorAlertas.listar_usuario
listar_usuario(g, chat_id) == Filtra(g.alertas, chat_id, FALSE)

\* GerenciadorAlertas.todos_ativos
todos_ativos(g) == Filtra(g.alertas, 0, TRUE)

\* x == y on two AlertaPassagem objects: the same object, or equal fields.
Iguais(x, y) == x.oid = y.oid \/ asdict(x) = asdict(y)

\* list.remove(x): the list without its first element equal to x.
list_remove(s, x) ==
    LET p == CHOOSE i \in 1..Len(s) : Iguais(s[i], x) /\ \A j \in 1..(i - 1) : ~Iguais(s[j], x)
    IN SubSeq(s, 1, p - 1) \o SubSeq(s, p + 1, Len(s))

\* GerenciadorAlertas.remover: the value returned.
remover_resultado(g, chat_id, indice) ==
    0 <= indice /\ indice < Len(listar_usuario(g, chat_id))

\* Mutant of remover: the index is only compared with the length, and a
\* negative index counts from the end of the list as lista[indice] does.
remover_sem_piso(g, chat_id, indice) ==
    LET lista == listar_usuario(g, chat_id)
    IN IF indice < Len(lista) /\ 0 - Len(lista) <= indice
       THEN salvar([g EXCEPT !.alertas =
                list_remove(g.alertas, lista[IF indice < 0 THEN Len(lista) + indice + 1 ELSE indice + 1])])
       ELSE g

\* GerenciadorAlertas.remover: the object afterwards.
remover(g, chat_id, indice) ==
    IF 0 <= indice /\ indice < Len(listar_usuario(g, chat_id))
    THEN salvar([g EXCEPT !.alertas = list_remove(g.alertas, listar_usuario(g, chat_id)[indice + 1])])
    ELSE g

\* Mutant of marcar_enviado: an alert that has a time keeps it.
marcar_enviado_primeiro(g, oid, agora) ==
    salvar([g EXCEPT !.alertas = [i \in 1..Len(g.alertas) |->
        IF g.alertas[i].oid = oid /\ g.alertas[i].ultimo_alerta = 0 - 1
        THEN [g.alertas[i] EXCEPT !.ultimo_alerta = agora]
        ELSE g.alertas[i]]])

\* GerenciadorAlertas.marcar_enviado, on the object with this identity: the
\* object is changed wherever it is, the file is written from the list.
marcar_enviado(g, oid, agora) ==
    salvar([g EXCEPT !.alertas = [i \in 1..Len(g.alertas) |->
        IF g.alertas[i].oid = oid
        THEN [g.alertas[i] EXCEPT !.ultimo_alerta = agora]
        ELSE g.alertas[i]]])

(***************************************************************************)
(* Handlers.  An action is one handler run on one update; its guard is the *)
(* dispatch of main(): the handlers in the order they were added, the      *)
(* ConversationHandler taking an update only through its entry point when  *)
(* the identity has no conversation, and through the handlers of the       *)
(* current state and the fallbacks when it has one.  An update that no     *)
(* handler takes changes nothing and is no action.                         *)
(*                                                                         *)
(* Callback data comes back from the client as sent: a handler sees only   *)
(* what its pattern lets through, so the data of a button is an input of   *)
(* the action, drawn from the buttons of any menu, present or past.  The   *)
(* administrator presses the buttons its chat shows (prompts).             *)
(***************************************************************************)
reg_vars == <<gerenciador, relogio, prox_oid>>
ag_vars == <<fonte, ag_pc, ag_tick, ag_fila, ag_ofertas, ag_dump, enviadas, perdidas>>
conv_vars == <<conv, user_data, corrida, menus>>

\* The history of a conversation that starts when the next object is number inicio.
CorridaNova(inicio) == [origem |-> "", destino |-> "", data |-> <<>>, inicio |-> inicio]

\* Mutant of requer_aprovacao: only a pending or denied record keeps the handler from running.
requer_aprovacao_frouxo(g, chat_id) ==
    chat_id = ADMIN_CHAT_ID \/ status(g, chat_id) \notin {"pendente", "negado"}

\* requer_aprovacao: the wrapper calls the handler.
requer_aprovacao(g, chat_id) == eh_aprovado(g, chat_id)

\* requer_aprovacao: the reply when it does not.
requer_aprovacao_resposta(g, chat_id) ==
    IF status(g, chat_id) = "pendente" THEN "gate_pendente"
    ELSE IF status(g, chat_id) = "negado" THEN "gate_negado"
    ELSE "gate_use_start"

\* Mutant of start: the administrator is registered like everybody else.
start_sem_admin(u, entregue) ==
    /\ usuarios' = registrar(usuarios, u)
    /\ IF registrar_resultado(usuarios, u) = "novo"
       THEN /\ prompts' = [prompts EXCEPT ![u] = IF entregue THEN @ + 1 ELSE @]
            /\ saida' = Msg(u, "solicitacao_enviada")
       ELSE /\ prompts' = prompts
            /\ saida' = Msg(u, "ola_pendente")
    /\ UNCHANGED <<reg_vars, conv_vars, ag_vars>>

\* start (/start and /ajuda).  entregue: the message to the administrator was sent.
start(u, entregue) ==
    IF u = ADMIN_CHAT_ID
    THEN /\ saida' = Msg(u, "bem_vindo_admin")
         /\ UNCHANGED <<usuarios, prompts, reg_vars, conv_vars, ag_vars>>
    ELSE /\ usuarios' = registrar(usuarios, u)
         /\ IF registrar_resultado(usuarios, u) = "novo"
            THEN /\ prompts' = [prompts EXCEPT ![u] = IF entregue THEN @ + 1 ELSE @]
                 /\ saida' = Msg(u, "solicitacao_enviada")
            ELSE /\ prompts' = prompts
                 /\ saida' = Msg(u, CASE registrar_resultado(usuarios, u) = "aprovado" -> "ola_aprovado"
                                      [] registrar_resultado(usuarios, u) = "pendente" -> "ola_pendente"
                                      [] OTHER -> "ola_negado")
         /\ UNCHANGED <<reg_vars, conv_vars, ag_vars>>

\* Mutant of cb_aprovar: the sender is not compared with ADMIN_CHAT_ID.
cb_aprovar_sem_admin(u, alvo) ==
    /\ u = ADMIN_CHAT_ID => prompts[alvo] > 0
    /\ usuarios' = aprovar(usuarios, alvo)
    /\ prompts' = [prompts EXCEPT ![alvo] = IF u = ADMIN_CHAT_ID THEN @ - 1 ELSE @]
    /\ saida' = Msg(alvo, "acesso_aprovado")
    /\ UNCHANGED <<reg_vars, conv_vars, ag_vars>>

\* cb_aprovar: u presses the button aprv|alvo.
cb_aprovar(u, alvo) ==
    IF u /= ADMIN_CHAT_ID
    THEN /\ saida' = Msg(u, "apenas_admin")
         /\ UNCHANGED <<usuarios, prompts, reg_vars, conv_vars, ag_vars>>
    ELSE /\ prompts[alvo] > 0
         /\ usuarios' = aprovar(usuarios, alvo)
         /\ prompts' = [prompts EXCEPT ![alvo] = @ - 1]
         /\ saida' = Msg(alvo, "acesso_aprovado")
         /\ UNCHANGED <<reg_vars, conv_vars, ag_vars>>

\* Mutant of cb_negar: the sender is not compared with ADMIN_CHAT_ID.
cb_negar_sem_admin(u, alvo) ==
    /\ u = ADMIN_CHAT_ID => prompts[alvo] > 0
    /\ usuarios' = negar(usuarios, alvo)
    /\ prompts' = [prompts EXCEPT ![alvo] = IF u = ADMIN_CHAT_ID THEN @ - 1 ELSE @]
    /\ saida' = Msg(alvo, "solicitacao_negada")
    /\ UNCHANGED <<reg_vars, conv_vars, ag_vars>>

\* cb_negar: u presses the button neg|alvo.
cb_negar(u, alvo) ==
    IF u /= ADMIN_CHAT_ID
    THEN /\ saida' = Msg(u, "apenas_admin")
         /\ UNCHANGED <<usuarios, prompts, reg_vars, conv_vars, ag_vars>>
    ELSE /\ prompts[alvo] > 0
         /\ usuarios' = negar(usuarios, alvo)
         /\ prompts' = [prompts EXCEPT ![alvo] = @ - 1]
         /\ saida' = Msg(alvo, "solicitacao_negada")
         /\ UNCHANGED <<reg_vars, conv_vars, ag_vars>>

\* pendentes (/pendentes): one message with buttons per pending record.
cmd_pendentes(u) ==
    IF u /= ADMIN_CHAT_ID
    THEN /\ saida' = Msg(u, "exclusivo_admin")
         /\ UNCHANGED <<usuarios, prompts, reg_vars, conv_vars, ag_vars>>
    ELSE IF usuarios_pendentes(usuarios) = {}
    THEN /\ saida' = Msg(u, "nenhuma_pendente")
         /\ UNCHANGED <<usuarios, prompts, reg_vars, conv_vars, ag_vars>>
    ELSE /\ \A c \in usuarios_pendentes(usuarios) : prompts[c] < MaxPrompts
         /\ prompts' = [c \in DOMAIN prompts |->
                          IF c \in usuarios_pendentes(usuarios) THEN prompts[c] + 1 ELSE prompts[c]]
         /\ saida' = Msg(u, "pendente")
         /\ UNCHANGED <<usuarios, reg_vars, conv_vars, ag_vars>>

\* novo_alerta (/novo_alerta), the entry point of the conversation.
novo_alerta(u) ==
    /\ conv[u] = END
    /\ IF ~requer_aprovacao(usuarios, u)
       THEN /\ saida' = Msg(u, requer_aprovacao_resposta(usuarios, u))
            /\ UNCHANGED <<usuarios, prompts, reg_vars, conv_vars, ag_vars>>
       ELSE /\ user_data' = [user_data EXCEPT ![u] = Vazio]
            /\ conv' = [conv EXCEPT ![u] = ORIGEM]
            /\ corrida' = [corrida EXCEPT ![u] = CorridaNova(prox_oid)]
            /\ UNCHANGED menus
            /\ saida' = Msg(u, "escolha_origem")
            /\ UNCHANGED <<usuarios, prompts, reg_vars, ag_vars>>

\* The update /novo_alerta as main() dispatches it.  The ConversationHandler
\* is built without allow_reentry: its entry point is tried only for an
\* identity that has no conversation.  For one that has, the handlers of the
\* state (buttons, texts that are no command) and the fallback (/cancelar)
\* do not match, nor does any handler added after it: no handler runs.
comando_novo_alerta(u) ==
    IF conv[u] = END THEN novo_alerta(u) ELSE UNCHANGED vars

\* The dest| buttons of the menu that cb_origem builds for the origin cod.
BotoesDestino(cod) == {TODOS} \cup (AEROPORTOS \ {cod})

\* cb_origem: u presses the button orig|cod; the message becomes the menu
\* of destinations.
cb_origem(u, cod) ==
    /\ conv[u] = ORIGEM
    /\ menus' = [menus EXCEPT ![u] = @ \cup {cod}]
    /\ user_data' = [user_data EXCEPT ![u] = ("origem_cod" :> cod) @@ @]
    /\ conv' = [conv EXCEPT ![u] = DESTINO]
    /\ corrida' = [corrida EXCEPT ![u].origem = cod]
    /\ saida' = Msg(u, "escolha_destino")
    /\ UNCHANGED <<usuarios, prompts, reg_vars, ag_vars>>

\* cb_destino: u presses the button dest|cod of one of the menus its chat
\* shows, that of this conversation or an older one; the message pressed is
\* edited and shows no button any more.
cb_destino(u, cod) ==
    /\ conv[u] = DESTINO
    /\ \E m \in menus[u] : cod \in BotoesDestino(m) /\ menus' = [menus EXCEPT ![u] = @ \ {m}]
    /\ user_data' = [user_data EXCEPT ![u] = ("destino_cod" :> cod) @@ @]
    /\ conv' = [conv EXCEPT ![u] = DATA]
    /\ corrida' = [corrida EXCEPT ![u].destino = cod]
    /\ saida' = Msg(u, "qual_data")
    /\ UNCHANGED <<usuarios, prompts, reg_vars, ag_vars>>

\* receber_data: u sends a text that is no command.
receber_data(u, texto) ==
    /\ conv[u] = DATA
    /\ IF data_aceita(texto)
       THEN /\ user_data' = [user_data EXCEPT ![u] = ("data" :> strptime(texto)) @@ @]
            /\ conv' = [conv EXCEPT ![u] = PRECO]
            /\ corrida' = [corrida EXCEPT ![u].data = texto]
            /\ UNCHANGED menus
            /\ saida' = Msg(u, "qual_preco")
       ELSE /\ saida' = Msg(u, "data_invalida")
            /\ UNCHANGED conv_vars
    /\ UNCHANGED <<usuarios, prompts, reg_vars, ag_vars>>

\* receber_preco: u sends a text that is no command.
receber_preco(u, texto) ==
    /\ conv[u] = PRECO
    /\ IF preco_aceito(texto)
       THEN /\ gerenciador' = adicionar(gerenciador,
                   AlertaPassagem(prox_oid, u, user_data[u]["origem_cod"],
                                  user_data[u]["destino_cod"], float(normaliza_preco(texto)),
                                  user_data[u]["data"], relogio))
            /\ relogio' = relogio + 1
            /\ prox_oid' = prox_oid + 1
            /\ conv' = [conv EXCEPT ![u] = END]
            /\ saida' = Msg(u, "alerta_criado")
            /\ UNCHANGED <<user_data, corrida, menus>>
       ELSE /\ saida' = Msg(u, "valor_invalido")
            /\ UNCHANGED <<reg_vars, conv_vars>>
    /\ UNCHANGED <<usuarios, prompts, ag_vars>>

\* Mutant of cancelar: the alert is stored with what was collected so far.
cancelar_guarda(u) ==
    /\ conv[u] \in Aguardando
    /\ conv' = [conv EXCEPT ![u] = END]
    /\ gerenciador' = IF DOMAIN user_data[u] = {"origem_cod", "destino_cod", "data"}
                      THEN adicionar(gerenciador,
                               AlertaPassagem(prox_oid, u, user_data[u]["origem_cod"],
                                              user_data[u]["destino_cod"], 1, user_data[u]["data"], relogio))
                      ELSE gerenciador
    /\ saida' = Msg(u, "cancelada")
    /\ UNCHANGED <<usuarios, prompts, relogio, prox_oid, user_data, corrida, menus, ag_vars>>

\* cancelar (/cancelar), the fallback of the conversation.
cancelar(u) ==
    /\ conv[u] \in Aguardando
    /\ conv' = [conv EXCEPT ![u] = END]
    /\ saida' = Msg(u, "cancelada")
    /\ UNCHANGED <<usuarios, prompts, reg_vars, user_data, corrida, menus, ag_vars>>

\* meus_alertas (/meus_alertas)
meus_alertas(u) ==
    /\ saida' = Msg(u, IF ~requer_aprovacao(usuarios, u) THEN requer_aprovacao_resposta(usuarios, u)
                       ELSE IF listar_usuario(gerenciador, u) = <<>> THEN "nenhum_alerta"
                       ELSE "seus_alertas")
    /\ UNCHANGED <<usuarios, prompts, reg_vars, conv_vars, ag_vars>>

\* remover_alerta (/remover_alerta): the menu of del|i buttons.
remover_alerta(u) ==
    /\ saida' = Msg(u, IF ~requer_aprovacao(usuarios, u) THEN requer_aprovacao_resposta(usuarios, u)
                       ELSE IF listar_usuario(gerenciador, u) = <<>> THEN "nenhum_para_remover"
                       ELSE "qual_remover")
    /\ UNCHANGED <<usuarios, prompts, reg_vars, conv_vars, ag_vars>>

\* cb_remover: u presses the button del|indice.
cb_remover(u, indice) ==
    /\ UNCHANGED <<usuarios, prompts, relogio, prox_oid, conv_vars, ag_vars>>
    /\ gerenciador' = remover(gerenciador, u, indice)
    /\ saida' = Msg(u, IF remover_resultado(gerenciador, u, indice) THEN "removido" ELSE "erro_remover")

(***************************************************************************)
(* GoogleFlightsScraper.  A flight is [preco, destino]; cia and escalas    *)
(* are shown in the message and decide nothing.  fonte[cod] is what the    *)
(* service has for the destination cod (the alerts of SpecAgendador share  *)
(* origin and date).                                                       *)
(***************************************************************************)
\* buscar_voos: the flights of the answer that carry a price; [] when the
\* request raised (falha).
RECURSIVE ComPreco(_)
ComPreco(precos) ==
    IF precos = <<>> THEN <<>>
    ELSE IF Head(precos) /= 0
         THEN <<[preco |-> Head(precos)]>> \o ComPreco(Tail(precos))
         ELSE ComPreco(Tail(precos))

buscar_voos(f, destino, falha) ==
    IF falha \/ destino \notin DOMAIN f THEN <<>> ELSE ComPreco(f[destino])

\* The inner loop of buscar_ofertas: the flights within the ceiling, with their destination.
RECURSIVE AteOLimite(_, _, _)
AteOLimite(voos, preco_maximo, destino) ==
    IF voos = <<>> THEN <<>>
    ELSE IF Head(voos).preco <= preco_maximo
         THEN <<[preco |-> Head(voos).preco, destino |-> destino]>>
                  \o AteOLimite(Tail(voos), preco_maximo, destino)
         ELSE AteOLimite(Tail(voos), preco_maximo, destino)

\* The loop of buscar_ofertas over the destinations other than the origin, from the i-th on.
RECURSIVE PorDestino(_, _, _, _)
PorDestino(f, alerta, falhas, i) ==
    IF i > Len(AEROPORTOS_items) THEN <<>>
    ELSE (IF AEROPORTOS_items[i] /= alerta.codigo_origem
          THEN AteOLimite(buscar_voos(f, AEROPORTOS_items[i], AEROPORTOS_items[i] \in falhas),
                          alerta.preco_maximo, AEROPORTOS_items[i])
          ELSE <<>>) \o PorDestino(f, alerta, falhas, i + 1)

\* sorted(resultados, key=preco): a stable sort.
RECURSIVE Insere(_, _)
Insere(s, x) ==
    IF s = <<>> THEN <<x>>
    ELSE IF s[Len(s)].preco <= x.preco THEN Append(s, x)
    ELSE Append(Insere(SubSeq(s, 1, Len(s) - 1), x), s[Len(s)])

\* Mutant of sorted: the list as it is.
sorted_sem_ordem(s) == s

RECURSIVE sorted(_)
sorted(s) == IF s = <<>> THEN <<>> ELSE Insere(sorted(SubSeq(s, 1, Len(s) - 1)), s[Len(s)])

\* buscar_ofertas; falhas: the destinations whose request raises.
buscar_ofertas(f, alerta, falhas) ==
    LET resultados ==
            IF alerta.codigo_destino /= TODOS
            THEN AteOLimite(buscar_voos(f, alerta.codigo_destino, alerta.codigo_destino \in falhas),
                            alerta.preco_maximo, alerta.codigo_destino)
            ELSE PorDestino(f, alerta, falhas, 1)
        ordenados == sorted(resultados)
    IN SubSeq(ordenados, 1, IF Len(ordenados) < 5 THEN Len(ordenados) ELSE 5)

\* verificar_agora: the reply for one alert.  buscar_voos has caught what
\* the request raised and returned [], so the except clause is reached only
\* when the reply itself raises (ok = FALSE).
verificar_resposta(f, alerta, falhas, ok) ==
    IF ~ok THEN "erro_ao_buscar"
    ELSE IF buscar_ofertas(f, alerta, falhas) /= <<>> THEN "oferta_encontrada"
    ELSE "nenhuma_oferta"

\* verificar_agora (/verificar): one reply for each alert of u, in the order
\* of the list; falhas: the destinations whose request raises during the
\* run; ok: the reply for the last alert did not raise.
verificar_agora(u, falhas, ok) ==
    /\ saida' = Msg(u, IF ~requer_aprovacao(usuarios, u) THEN requer_aprovacao_resposta(usuarios, u)
                       ELSE IF listar_usuario(gerenciador, u) = <<>> THEN "nenhum_alerta_ativo"
                       ELSE verificar_resposta(fonte,
                                listar_usuario(gerenciador, u)[Len(listar_usuario(gerenciador, u))],
                                falhas, ok))
    /\ UNCHANGED <<usuarios, prompts, reg_vars, conv_vars, ag_vars>>

(***************************************************************************)
(* loop_verificacao, the thread started by main().  One action per         *)
(* statement that reads or writes what the handlers share with it.         *)
(***************************************************************************)
handler_vars == <<usuarios, prompts, conv, user_data, corrida, menus>>

\* The for loop goes to its next alert, or the pass ends and the thread sleeps.
Proximo(fila) == IF Len(fila) > 1 THEN "busca" ELSE "dorme"

\* time.sleep returns: alertas = gerenciador.todos_ativos().
ag_acorda ==
    /\ ag_pc = "dorme"
    /\ ag_tick < MaxTicks
    /\ ag_tick' = ag_tick + 1
    /\ ag_fila' = todos_ativos(gerenciador)
    /\ ag_pc' = IF todos_ativos(gerenciador) = <<>> THEN "dorme" ELSE "busca"
    /\ UNCHANGED <<handler_vars, reg_vars, saida, fonte, ag_ofertas, ag_dump, enviadas, perdidas>>

\* Mutant of ag_busca: an alert without offers is not looked at again (ativo = False).
ag_busca_desativa(falhas) ==
    /\ ag_pc = "busca"
    /\ LET ofertas == buscar_ofertas(fonte, Head(ag_fila), falhas)
       IN IF ofertas /= <<>>
          THEN /\ ag_ofertas' = ofertas
               /\ ag_pc' = "envia"
               /\ UNCHANGED <<ag_fila, gerenciador>>
          ELSE /\ ag_ofertas' = <<>>
               /\ ag_pc' = Proximo(ag_fila)
               /\ ag_fila' = Tail(ag_fila)
               /\ gerenciador' = salvar([gerenciador EXCEPT !.alertas =
                      [i \in DOMAIN gerenciador.alertas |->
                          IF gerenciador.alertas[i].oid = Head(ag_fila).oid
                          THEN [gerenciador.alertas[i] EXCEPT !.ativo = FALSE]
                          ELSE gerenciador.alertas[i]]])
    /\ UNCHANGED <<handler_vars, relogio, prox_oid, saida, fonte, ag_tick, ag_dump, enviadas, perdidas>>

\* ofertas = scraper.buscar_ofertas(alerta); if ofertas: ... else: ...
ag_busca(falhas) ==
    /\ ag_pc = "busca"
    /\ LET ofertas == buscar_ofertas(fonte, Head(ag_fila), falhas)
       IN IF ofertas /= <<>>
          THEN /\ ag_ofertas' = ofertas
               /\ ag_pc' = "envia"
               /\ UNCHANGED ag_fila
          ELSE /\ ag_ofertas' = <<>>
               /\ ag_pc' = Proximo(ag_fila)
               /\ ag_fila' = Tail(ag_fila)
    /\ UNCHANGED <<handler_vars, reg_vars, saida, fonte, ag_tick, ag_dump, enviadas, perdidas>>

\* Mutant of ag_envia: a send that raises ends the pass.
ag_envia_aborta(ok) ==
    /\ ag_pc = "envia"
    /\ IF ok
       THEN /\ enviadas' = Append(enviadas, [oid |-> Head(ag_fila).oid, chat_id |-> Head(ag_fila).chat_id,
                                             tick |-> ag_tick, ofertas |-> ag_ofertas])
            /\ saida' = Msg(Head(ag_fila).chat_id, "oferta_encontrada")
            /\ ag_pc' = "marca"
            /\ UNCHANGED <<ag_fila, ag_ofertas, perdidas>>
       ELSE /\ ag_pc' = "dorme"
            /\ ag_fila' = <<>>
            /\ ag_ofertas' = <<>>
            /\ perdidas' = Append(perdidas, [oid |-> Head(ag_fila).oid, tick |-> ag_tick])
            /\ UNCHANGED <<enviadas, saida>>
    /\ UNCHANGED <<handler_vars, reg_vars, fonte, ag_tick, ag_dump>>

\* Mutant of ag_envia: marcar_enviado is called whether the send raised or not.
ag_envia_marca(ok) ==
    /\ ag_pc = "envia"
    /\ IF ok
       THEN /\ enviadas' = Append(enviadas, [oid |-> Head(ag_fila).oid, chat_id |-> Head(ag_fila).chat_id,
                                             tick |-> ag_tick, ofertas |-> ag_ofertas])
            /\ saida' = Msg(Head(ag_fila).chat_id, "oferta_encontrada")
            /\ UNCHANGED perdidas
       ELSE /\ perdidas' = Append(perdidas, [oid |-> Head(ag_fila).oid, tick |-> ag_tick])
            /\ UNCHANGED <<enviadas, saida>>
    /\ ag_pc' = "marca"
    /\ UNCHANGED <<handler_vars, reg_vars, fonte, ag_tick, ag_fila, ag_ofertas, ag_dump>>

\* Mutant of ag_envia: a send that raises is not caught and ends the thread.
ag_envia_encerra(ok) ==
    /\ ag_pc = "envia"
    /\ IF ok
       THEN /\ enviadas' = Append(enviadas, [oid |-> Head(ag_fila).oid, chat_id |-> Head(ag_fila).chat_id,
                                             tick |-> ag_tick, ofertas |-> ag_ofertas])
            /\ saida' = Msg(Head(ag_fila).chat_id, "oferta_encontrada")
            /\ ag_pc' = "marca"
            /\ UNCHANGED <<ag_fila, ag_ofertas, perdidas>>
       ELSE /\ ag_pc' = "encerrada"
            /\ ag_fila' = <<>>
            /\ ag_ofertas' = <<>>
            /\ perdidas' = Append(perdidas, [oid |-> Head(ag_fila).oid, tick |-> ag_tick])
            /\ UNCHANGED <<enviadas, saida>>
    /\ UNCHANGED <<handler_vars, reg_vars, fonte, ag_tick, ag_dump>>

\* asyncio.run(app.bot.send_message(...)); ok: it did not raise.
ag_envia(ok) ==
    /\ ag_pc = "envia"
    /\ IF ok
       THEN /\ enviadas' = Append(enviadas, [oid |-> Head(ag_fila).oid, chat_id |-> Head(ag_fila).chat_id,
                                             tick |-> ag_tick, ofertas |-> ag_ofertas])
            /\ saida' = Msg(Head(ag_fila).chat_id, "oferta_encontrada")
            /\ ag_pc' = "marca"
            /\ UNCHANGED <<ag_fila, ag_ofertas, perdidas>>
       ELSE /\ ag_pc' = Proximo(ag_fila)
            /\ ag_fila' = Tail(ag_fila)
            /\ ag_ofertas' = <<>>
            /\ perdidas' = Append(perdidas, [oid |-> Head(ag_fila).oid, tick |-> ag_tick])
            /\ UNCHANGED <<enviadas, saida>>
    /\ UNCHANGED <<handler_vars, reg_vars, fonte, ag_tick, ag_dump>>

\* gerenciador.marcar_enviado(alerta), up to the call of json.dump in salvar:
\* the field is assigned, open(arquivo, "w") has emptied the file and the list
\* to write has been built.  The handlers run in another thread and nothing
\* keeps them out of the registry until the write.
ag_marca ==
    /\ ag_pc = "marca"
    /\ gerenciador' = [marcar_enviado(gerenciador, Head(ag_fila).oid, relogio) EXCEPT !.arquivo = <<>>]
    /\ ag_dump' = marcar_enviado(gerenciador, Head(ag_fila).oid, relogio).arquivo
    /\ relogio' = relogio + 1
    /\ ag_pc' = "grava"
    /\ UNCHANGED <<handler_vars, prox_oid, saida, fonte, ag_tick, ag_fila, ag_ofertas, enviadas, perdidas>>

\* What a file holds when a text was written over the beginning of a longer one.
Ilegivel == <<[ilegivel |-> TRUE]>>

\* The end of salvar in marcar_enviado: the text is written from the start of
\* the file and the file is closed.  inteiro: the text covers what the file
\* held (nothing, unless a handler has written the file since ag_marca).
ag_grava(inteiro) ==
    /\ ag_pc = "grava"
    /\ IF inteiro
       THEN Len(ag_dump) >= Len(gerenciador.arquivo)
       ELSE Len(ag_dump) <= Len(gerenciador.arquivo) /\ ag_dump /= gerenciador.arquivo
    /\ gerenciador' = [gerenciador EXCEPT !.arquivo = IF inteiro THEN ag_dump ELSE Ilegivel]
    /\ ag_dump' = <<>>
    /\ ag_pc' = Proximo(ag_fila)
    /\ ag_fila' = Tail(ag_fila)
    /\ ag_ofertas' = <<>>
    /\ UNCHANGED <<handler_vars, relogio, prox_oid, saida, fonte, ag_tick, enviadas, perdidas>>

(***************************************************************************)
(* A write of a file that raises.  salvar has no try: the exception leaves *)
(* the method that called it and then the handler, whose remaining         *)
(* statements (the reply, the return of the next state) do not run; the    *)
(* Application logs it in handler_erros and the state of the conversation  *)
(* stays.  In loop_verificacao the except clause of the alert logs it.     *)
(* What was assigned in memory before salvar stays assigned.               *)
(***************************************************************************)
\* GerenciadorAlertas.salvar raises: in open (aberto = FALSE, the file is as it
\* was) or in json.dump, after open has emptied the file.
salvar_erro(g, aberto) == [g EXCEPT !.arquivo = IF aberto THEN <<>> ELSE @]

\* GerenciadorUsuarios.salvar raises.
salvar_usuarios_erro(g, aberto) == [g EXCEPT !.arquivo = IF aberto THEN Vazio ELSE @]

\* Mutant of receber_preco_erro: the exception of adicionar is caught and the
\* handler goes on as if the alert had been stored.
receber_preco_engole(u, texto, aberto) ==
    /\ conv[u] = PRECO
    /\ preco_aceito(texto)
    /\ gerenciador' = salvar_erro([gerenciador EXCEPT !.alertas = Append(@,
                          AlertaPassagem(prox_oid, u, user_data[u]["origem_cod"],
                                         user_data[u]["destino_cod"], float(normaliza_preco(texto)),
                                         user_data[u]["data"], relogio))], aberto)
    /\ relogio' = relogio + 1
    /\ prox_oid' = prox_oid + 1
    /\ conv' = [conv EXCEPT ![u] = END]
    /\ saida' = Msg(u, "alerta_criado")
    /\ UNCHANGED <<usuarios, prompts, user_data, corrida, menus, ag_vars>>

\* receber_preco when the salvar of gerenciador.adicionar raises.
receber_preco_erro(u, texto, aberto) ==
    /\ conv[u] = PRECO
    /\ preco_aceito(texto)
    /\ gerenciador' = salvar_erro([gerenciador EXCEPT !.alertas = Append(@,
                          AlertaPassagem(prox_oid, u, user_data[u]["origem_cod"],
                                         user_data[u]["destino_cod"], float(normaliza_preco(texto)),
                                         user_data[u]["data"], relogio))], aberto)
    /\ relogio' = relogio + 1
    /\ prox_oid' = prox_oid + 1
    /\ UNCHANGED <<usuarios, prompts, conv_vars, saida, ag_vars>>

\* cb_remover when the salvar of gerenciador.remover raises.
cb_remover_erro(u, indice, aberto) ==
    /\ remover_resultado(gerenciador, u, indice)
    /\ gerenciador' = salvar_erro([gerenciador EXCEPT !.alertas =
                          list_remove(@, listar_usuario(gerenciador, u)[indice + 1])], aberto)
    /\ UNCHANGED <<usuarios, prompts, relogio, prox_oid, conv_vars, saida, ag_vars>>

\* start when the salvar of usuarios.registrar raises.
start_erro(u, aberto) ==
    /\ u /= ADMIN_CHAT_ID
    /\ u \notin DOMAIN usuarios.usuarios
    /\ usuarios' = salvar_usuarios_erro(
                       [usuarios EXCEPT !.usuarios = (u :> [status |-> "pendente"]) @@ @], aberto)
    /\ UNCHANGED <<prompts, reg_vars, conv_vars, saida, ag_vars>>

\* cb_aprovar when the salvar of usuarios.aprovar raises.
cb_aprovar_erro(u, alvo, aberto) ==
    /\ u = ADMIN_CHAT_ID
    /\ prompts[alvo] > 0
    /\ alvo \in DOMAIN usuarios.usuarios
    /\ usuarios' = salvar_usuarios_erro([usuarios EXCEPT !.usuarios[alvo].status = "aprovado"], aberto)
    /\ UNCHANGED <<prompts, reg_vars, conv_vars, saida, ag_vars>>

\* cb_negar when the salvar of usuarios.negar raises.
cb_negar_erro(u, alvo, aberto) ==
    /\ u = ADMIN_CHAT_ID
    /\ prompts[alvo] > 0
    /\ alvo \in DOMAIN usuarios.usuarios
    /\ usuarios' = salvar_usuarios_erro([usuarios EXCEPT !.usuarios[alvo].status = "negado"], aberto)
    /\ UNCHANGED <<prompts, reg_vars, conv_vars, saida, ag_vars>>

\* gerenciador.marcar_enviado(alerta) in loop_verificacao when its salvar raises.
ag_marca_erro(aberto) ==
    /\ ag_pc = "marca"
    /\ gerenciador' = salvar_erro(
                         [gerenciador EXCEPT !.alertas =
                             marcar_enviado(gerenciador, Head(ag_fila).oid, relogio).alertas], aberto)
    /\ relogio' = relogio + 1
    /\ ag_pc' = Proximo(ag_fila)
    /\ ag_fila' = Tail(ag_fila)
    /\ ag_ofertas' = <<>>
    /\ UNCHANGED <<handler_vars, prox_oid, saida, fonte, ag_tick, ag_dump, enviadas, perdidas>>

(***************************************************************************)
(* The environment                                                         *)
(***************************************************************************)
\* The flight search service has other prices.
MudaFonte(f) ==
    /\ f /= fonte
    /\ fonte' = f
    /\ UNCHANGED <<handler_vars, reg_vars, saida, ag_pc, ag_tick, ag_fila, ag_ofertas, ag_dump, enviadas, perdidas>>

\* datetime.now() is the wall clock: the system's time is set back.
relogio_atrasa ==
    /\ relogio > 0
    /\ relogio' = relogio - 1
    /\ UNCHANGED <<handler_vars, gerenciador, prox_oid, saida, ag_vars>>

(***************************************************************************)
(* Init: the two files do not exist, nobody has written to the bot.        *)
(***************************************************************************)
Init ==
    /\ usuarios = [usuarios |-> Vazio, arquivo |-> Vazio]
    /\ gerenciador = [alertas |-> <<>>, arquivo |-> <<>>]
    /\ relogio = 0
    /\ prox_oid = 0
    /\ conv = [u \in Identidades |-> END]
    /\ user_data = [u \in Identidades |-> Vazio]
    /\ prompts = [u \in Identidades |-> 0]
    /\ saida = Msg(0, "")
    /\ corrida = [u \in Identidades |-> CorridaNova(0)]
    /\ menus = [u \in Identidades |-> {}]
    /\ fonte = [d \in AEROPORTOS |-> <<>>]
    /\ ag_pc = "dorme"
    /\ ag_tick = 0
    /\ ag_fila = <<>>
    /\ ag_ofertas = <<>>
    /\ ag_dump = <<>>
    /\ enviadas = <<>>
    /\ perdidas = <<>>

(***************************************************************************)
(* Inputs                                                                  *)
(***************************************************************************)
NaoAdmin == Identidades \ {ADMIN_CHAT_ID}

CodigosOrigem == {"BEL", "BSB", Desconhecido}
CodigosDestino == {"BEL", TODOS}

\* 25/12/2026, today, yesterday, 31/02/2027, "25/12"
TextosData == {<<25, 12, 2026>>, <<5, 11, 2026>>, <<4, 11, 2026>>, <<31, 2, 2027>>, <<25, 12>>}

\* "600", " R$ 600,00", "0", "-5", "abc", "1.200,50"
TextosPreco ==
    { <<"6", "0", "0">>,
      <<" ", "R", "$", " ", "6", "0", "0", ",", "0", "0">>,
      <<"0">>,
      <<"-", "5">>,
      <<"a", "b", "c">>,
      <<"1", ".", "2", "0", "0", ",", "5", "0">> }

(***************************************************************************)
(* Spec: the conversation of U1 with all its inputs, the administrator's   *)
(* decisions on U1, and U1's other commands.                               *)
(***************************************************************************)
Next ==
    \/ \E entregue \in BOOLEAN : start(U1, entregue)
    \/ cmd_pendentes(ADMIN_CHAT_ID)
    \/ cb_aprovar(ADMIN_CHAT_ID, U1)
    \/ cb_negar(ADMIN_CHAT_ID, U1)
    \/ comando_novo_alerta(U1)
    \/ \E cod \in CodigosOrigem : cb_origem(U1, cod)
    \/ \E cod \in CodigosDestino : cb_destino(U1, cod)
    \/ \E texto \in TextosData : receber_data(U1, texto)
    \/ \E texto \in TextosPreco :
          (relogio < MaxRelogio \/ ~preco_aceito(texto)) /\ receber_preco(U1, texto)
    \/ cancelar(U1)
    \/ meus_alertas(U1)
    \/ remover_alerta(U1)
    \/ \E indice \in (0 - 1)..MaxRelogio : cb_remover(U1, indice)

Spec == Init /\ [][Next]_vars

(***************************************************************************)
(* SpecAprovacao: registration, the administrator's decisions and the      *)
(* gate, for every identity.                                               *)
(***************************************************************************)
NextAprovacao ==
    \/ \E u \in Identidades, entregue \in BOOLEAN : start(u, entregue)
    \/ \E u \in Identidades : cmd_pendentes(u)
    \/ \E u \in Identidades, alvo \in Identidades : cb_aprovar(u, alvo)
    \/ \E u \in Identidades, alvo \in Identidades : cb_negar(u, alvo)
    \/ \E u \in Identidades : novo_alerta(u)
    \/ \E u \in Identidades : cancelar(u)
    \/ \E u \in Identidades : meus_alertas(u)
    \/ \E u \in Identidades : remover_alerta(u)

SpecAprovacao == Init /\ [][NextAprovacao]_vars

(***************************************************************************)
(* SpecRegistro: the administrator and U1 create alerts with the same      *)
(* answers and remove them by index.                                       *)
(***************************************************************************)
Donos == {ADMIN_CHAT_ID, U1}

NextRegistro ==
    \/ start(U1, TRUE)
    \/ cb_aprovar(ADMIN_CHAT_ID, U1)
    \/ \E u \in Donos : novo_alerta(u)
    \/ \E u \in Donos : cb_origem(u, "BSB")
    \/ \E u \in Donos : cb_destino(u, TODOS)
    \/ \E u \in Donos : receber_data(u, <<25, 12, 2026>>)
    \/ \E u \in Donos : prox_oid < MaxAlertasReg /\ receber_preco(u, <<"6", "0", "0">>)
    \/ \E u \in Donos, indice \in (0 - 1)..MaxAlertasReg : cb_remover(u, indice)
    \/ relogio_atrasa

SpecRegistro == Init /\ [][NextRegistro]_vars

(***************************************************************************)
(* SpecAgendador: the administrator creates and removes alerts while the   *)
(* thread of loop_verificacao runs and the prices change.  Only ag_busca   *)
(* reads the prices, so a change while the thread is elsewhere in its pass *)
(* is the same change made when the thread is next at a query or asleep.   *)
(***************************************************************************)
\* fonte at different times: nothing; one flight to BEL and one to CNF within
\* 600,00; six flights within 600,00, one above and one without price.
FonteSimples ==
    [d \in AEROPORTOS |-> IF d = "BEL" THEN <<55000>> ELSE IF d = "CNF" THEN <<50000>> ELSE <<>>]

Fontes ==
    { [d \in AEROPORTOS |-> <<>>],
      FonteSimples,
      [d \in AEROPORTOS |-> IF d = "BEL" THEN <<58000, 70000, 55000, 50000>>
                            ELSE IF d = "CNF" THEN <<52000, 60000, 0, 51000>> ELSE <<>>] }

NextAgendador ==
    \/ novo_alerta(ADMIN_CHAT_ID)
    \/ cb_origem(ADMIN_CHAT_ID, "BSB")
    \/ \E cod \in CodigosDestino : cb_destino(ADMIN_CHAT_ID, cod)
    \/ receber_data(ADMIN_CHAT_ID, <<25, 12, 2026>>)
    \/ prox_oid < MaxAlertasAg /\ receber_preco(ADMIN_CHAT_ID, <<"6", "0", "0">>)
    \/ cb_remover(ADMIN_CHAT_ID, 0)
    \/ \E f \in Fontes : ag_pc \in {"dorme", "busca"} /\ MudaFonte(f)
    \/ ag_acorda
    \/ \E falhas \in {{}, AEROPORTOS} : ag_busca(falhas)
    \/ \E ok \in BOOLEAN : ag_envia(ok)
    \/ ag_marca
    \/ \E inteiro \in BOOLEAN : ag_grava(inteiro)

SpecAgendador == Init /\ [][NextAgendador]_vars

(***************************************************************************)
(* SpecManual: the administrator creates and removes alerts and asks for   *)
(* an evaluation (/verificar) while the prices change and requests fail.   *)
(***************************************************************************)
FalhasManuais == {{}, {"BEL"}, AEROPORTOS}

NextManual ==
    \/ novo_alerta(ADMIN_CHAT_ID)
    \/ cb_origem(ADMIN_CHAT_ID, "BSB")
    \/ \E cod \in CodigosDestino : cb_destino(ADMIN_CHAT_ID, cod)
    \/ receber_data(ADMIN_CHAT_ID, <<25, 12, 2026>>)
    \/ prox_oid < MaxAlertasAg /\ receber_preco(ADMIN_CHAT_ID, <<"6", "0", "0">>)
    \/ cb_remover(ADMIN_CHAT_ID, 0)
    \/ \E f \in Fontes : MudaFonte(f)
    \/ \E u \in {ADMIN_CHAT_ID, U1}, falhas \in FalhasManuais, ok \in BOOLEAN : verificar_agora(u, falhas, ok)

SpecManual == Init /\ [][NextManual]_vars

(***************************************************************************)
(* SpecVivo: SpecAgendador with a thread that keeps running.  time.sleep   *)
(* returns and every statement of the loop ends (the request has a timeout *)
(* of 30 s), so a step of the thread that can be taken is taken: weak      *)
(* fairness on the steps of the thread.  The service gets its prices once  *)
(* and keeps them.  A request or a send can raise in any pass but the last *)
(* one that MaxTicks allows.                                               *)
(***************************************************************************)
AgVivo ==
    \/ ag_acorda
    \/ \E falhas \in {{}, AEROPORTOS} : (falhas = {} \/ ag_tick < MaxTicks) /\ ag_busca(falhas)
    \/ \E ok \in BOOLEAN : (ok \/ ag_tick < MaxTicks) /\ ag_envia(ok)
    \/ ag_marca
    \/ \E inteiro \in BOOLEAN : ag_grava(inteiro)

NextVivo ==
    \/ novo_alerta(ADMIN_CHAT_ID)
    \/ cb_origem(ADMIN_CHAT_ID, "BSB")
    \/ cb_destino(ADMIN_CHAT_ID, TODOS)
    \/ receber_data(ADMIN_CHAT_ID, <<25, 12, 2026>>)
    \/ prox_oid < MaxAlertasAg /\ receber_preco(ADMIN_CHAT_ID, <<"6", "0", "0">>)
    \/ cb_remover(ADMIN_CHAT_ID, 0)
    \/ ag_pc \in {"dorme", "busca"} /\ MudaFonte(FonteSimples)
    \/ AgVivo

SpecVivo == Init /\ [][NextVivo]_vars /\ WF_vars(AgVivo)

(***************************************************************************)
(* SpecFalha: SpecAgendador's administrator and scheduler, the registration*)
(* and approval of U1, and writes of the two files that raise.             *)
(***************************************************************************)
NextFalha ==
    \/ start(U1, TRUE)
    \/ \E aberto \in BOOLEAN : start_erro(U1, aberto)
    \/ cb_aprovar(ADMIN_CHAT_ID, U1)
    \/ \E aberto \in BOOLEAN : cb_aprovar_erro(ADMIN_CHAT_ID, U1, aberto)
    \/ cb_negar(ADMIN_CHAT_ID, U1)
    \/ \E aberto \in BOOLEAN : cb_negar_erro(ADMIN_CHAT_ID, U1, aberto)
    \/ novo_alerta(ADMIN_CHAT_ID)
    \/ cb_origem(ADMIN_CHAT_ID, "BSB")
    \/ cb_destino(ADMIN_CHAT_ID, TODOS)
    \/ receber_data(ADMIN_CHAT_ID, <<25, 12, 2026>>)
    \/ prox_oid < MaxAlertasAg /\ receber_preco(ADMIN_CHAT_ID, <<"6", "0", "0">>)
    \/ \E aberto \in BOOLEAN :
          prox_oid < MaxAlertasAg /\ receber_preco_erro(ADMIN_CHAT_ID, <<"6", "0", "0">>, aberto)
    \/ cb_remover(ADMIN_CHAT_ID, 0)
    \/ \E aberto \in BOOLEAN : cb_remover_erro(ADMIN_CHAT_ID, 0, aberto)
    \/ ag_pc \in {"dorme", "busca"} /\ MudaFonte(FonteSimples)
    \/ ag_acorda
    \/ ag_busca({})
    \/ ag_envia(TRUE)
    \/ ag_marca
    \/ \E inteiro \in BOOLEAN : ag_grava(inteiro)
    \/ \E aberto \in BOOLEAN : ag_marca_erro(aberto)

SpecFalha == Init /\ [][NextFalha]_vars

(***************************************************************************)
(* Claims checked under Spec                                               *)
(***************************************************************************)
\* The alerts of the list that belong to u and were constructed since u's last /novo_alerta.
GanhosNaCorrida(g, u) ==
    {i \in 1..Len(g.alertas) : g.alertas[i].chat_id = u /\ g.alertas[i].oid >= corrida[u].inicio}

\* C1: when U1, having selected a known origin, then a destination, then entered
\* a valid date, enters a valid positive price, the registry had gained no alert
\* of U1 in this conversation so far and now holds exactly one, appended to the
\* list, whose owner, origin, destination, date and price ceiling are U1 and the
\* values entered in this conversation.
C1_UmAlertaPorConversa ==
    [][\A texto \in TextosPreco :
         (receber_preco(U1, texto) /\ preco_aceito(texto) /\ corrida[U1].origem \in AEROPORTOS)
         => LET antes == gerenciador.alertas
                depois == gerenciador'.alertas
                novo == depois[Len(depois)]
            IN /\ GanhosNaCorrida(gerenciador, U1) = {}
               /\ Cardinality(GanhosNaCorrida(gerenciador', U1)) = 1
               /\ Len(depois) = Len(antes) + 1
               /\ SubSeq(depois, 1, Len(antes)) = antes
               /\ novo.chat_id = U1
               /\ novo.codigo_origem = corrida[U1].origem
               /\ novo.codigo_destino = corrida[U1].destino
               /\ novo.data_partida = <<corrida[U1].data[3], corrida[U1].data[2], corrida[U1].data[1]>>
               /\ novo.preco_maximo = float(normaliza_preco(texto))
               /\ novo.preco_maximo > 0
    ]_vars

\* C1 witness: U1 has just completed a conversation from BSB to anywhere on
\* 25/12/2026 and the registry holds that alert.
C1_Witness ==
    /\ saida = Msg(U1, "alerta_criado")
    /\ corrida[U1].origem = "BSB"
    /\ corrida[U1].destino = TODOS
    /\ \E i \in 1..Len(gerenciador.alertas) :
          /\ gerenciador.alertas[i].chat_id = U1
          /\ gerenciador.alertas[i].codigo_origem = "BSB"
          /\ gerenciador.alertas[i].codigo_destino = TODOS
          /\ gerenciador.alertas[i].data_partida = <<2026, 12, 25>>

\* C2: whenever the number of alerts of an identity in the registry changes (one
\* was added or one was removed for it), the identity is approved, or is the
\* administrator, at that moment.
C2_SoAprovadoMuda ==
    [][\A u \in Identidades :
         Len(listar_usuario(gerenciador', u)) /= Len(listar_usuario(gerenciador, u))
         => eh_aprovado(usuarios, u)
    ]_vars

\* The claim's invalid inputs.
OrigemNaoReconhecida(cod) == cod \notin AEROPORTOS
DataInvalida(texto) == ~strptime_ok(texto) \/ DataMenor(strptime(texto), Hoje)
PrecoInvalido(texto) == ~float_ok(normaliza_preco(texto)) \/ float(normaliza_preco(texto)) <= 0

\* C4: an unrecognized origin selection in ORIGEM, an unparsable or past date in
\* DATA, an unparsable or non-positive price in PRECO leaves the state of the
\* conversation, the collected fields and the registry as they were.
C4_EntradaInvalidaNaoAvanca ==
    [][( \/ \E cod \in CodigosOrigem : OrigemNaoReconhecida(cod) /\ cb_origem(U1, cod)
         \/ \E texto \in TextosData : DataInvalida(texto) /\ receber_data(U1, texto)
         \/ \E texto \in TextosPreco : PrecoInvalido(texto) /\ receber_preco(U1, texto) )
       => /\ conv' = conv
          /\ user_data' = user_data
          /\ gerenciador' = gerenciador
    ]_vars

\* C5: in each of ORIGEM, DESTINO, DATA and PRECO the cancel command is taken, and
\* taking it ends the conversation and leaves the registry, list and file, as it was.
C5_CancelarNaoCria ==
    /\ [](conv[U1] \in Aguardando => ENABLED cancelar(U1))
    /\ [][cancelar(U1) => /\ conv[U1] \in Aguardando
                          /\ conv'[U1] = END
                          /\ gerenciador' = gerenciador
                          /\ saida' = Msg(U1, "cancelada")]_vars

\* C5 witness: U1 cancelled after origin, destination and date were collected,
\* and the registry is empty.
C5_Witness ==
    /\ saida = Msg(U1, "cancelada")
    /\ conv[U1] = END
    /\ DOMAIN user_data[U1] = {"origem_cod", "destino_cod", "data"}
    /\ gerenciador.alertas = <<>>

(***************************************************************************)
(* Claims checked under SpecAprovacao                                      *)
(***************************************************************************)
\* What the gate answers for an identity: requer_aprovacao lets it through
\* (Allowed) or replies by its status.
Autoriza(g, u) ==
    IF requer_aprovacao(g, u) THEN "Allowed"
    ELSE IF requer_aprovacao_resposta(g, u) = "gate_pendente" THEN "Pending"
    ELSE IF requer_aprovacao_resposta(g, u) = "gate_negado" THEN "Denied"
    ELSE "Unknown"

C9_Original ==
    [][\A u \in NaoAdmin :
         (u \in DOMAIN usuarios.usuarios /\ status(usuarios', u) /= status(usuarios, u))
         => /\ status(usuarios, u) = "pendente"
            /\ status(usuarios', u) \in {"aprovado", "negado"}
    ]_vars

\* C9 amended: every change of the status of a record is made by an approve or
\* deny selection of the administrator and leads to aprovado or negado; no status
\* becomes pendente again and no record disappears.  (From a prompt issued
\* earlier the administrator can still turn aprovado into negado and back.)
C9_MudancaSoPorDecisao ==
    [][\A u \in NaoAdmin :
         (u \in DOMAIN usuarios.usuarios /\ status(usuarios', u) /= status(usuarios, u))
         => /\ status(usuarios', u) \in {"aprovado", "negado"}
            /\ cb_aprovar(ADMIN_CHAT_ID, u) \/ cb_negar(ADMIN_CHAT_ID, u)
    ]_vars

\* C9 witness: U1 was approved and then denied from an earlier prompt, and U2,
\* denied, has sent /start again.
C9_Witness ==
    /\ status(usuarios, U1) = "negado"
    /\ prompts[U1] = 0
    /\ status(usuarios, U2) = "negado"
    /\ saida = Msg(U2, "ola_negado")

\* C10 as stated: once the gate answers Denied for an identity, it answers
\* Denied ever after.
C10_Original ==
    [][\A u \in NaoAdmin :
         Autoriza(usuarios, u) = "Denied" => Autoriza(usuarios', u) = "Denied"
    ]_vars

\* An update sent by u is handled.
AcaoDe(u) ==
    \/ \E entregue \in BOOLEAN : start(u, entregue)
    \/ cmd_pendentes(u)
    \/ \E alvo \in NaoAdmin : cb_aprovar(u, alvo) \/ cb_negar(u, alvo)
    \/ novo_alerta(u)
    \/ cancelar(u)
    \/ meus_alertas(u)
    \/ remover_alerta(u)

\* C10 amended: once the gate answers Denied for an identity, no update sent by
\* that identity changes the answer, and the answer stays Denied until the
\* administrator approves the identity from an approval prompt.
C10_NegadoAteAprovar ==
    [][\A u \in NaoAdmin :
         Autoriza(usuarios, u) = "Denied"
         => /\ AcaoDe(u) => Autoriza(usuarios', u) = "Denied"
            /\ Autoriza(usuarios', u) /= "Denied"
                 => Autoriza(usuarios', u) = "Allowed" /\ cb_aprovar(ADMIN_CHAT_ID, u)
    ]_vars

\* C10 witness: U1, denied, has sent /novo_alerta and was refused as denied.
C10_Witness ==
    /\ status(usuarios, U1) = "negado"
    /\ saida = Msg(U1, "gate_negado")

\* C11: a press of Aprovar or Negar by an identity other than the administrator
\* is answered "only the administrator" and leaves the dict of records and its
\* file as they were, whoever the button names; and a step in which the status
\* of some existing record changes is a press of Aprovar or Negar by the
\* administrator.
C11_SoOAdministradorDecide ==
    [][/\ \A u \in NaoAdmin, alvo \in Identidades :
            (cb_aprovar(u, alvo) \/ cb_negar(u, alvo))
            => usuarios' = usuarios /\ saida' = Msg(u, "apenas_admin")
       /\ (\E c \in DOMAIN usuarios.usuarios :
               c \notin DOMAIN usuarios'.usuarios \/ usuarios'.usuarios[c] /= usuarios.usuarios[c])
            => \E alvo \in Identidades :
                  cb_aprovar(ADMIN_CHAT_ID, alvo) \/ cb_negar(ADMIN_CHAT_ID, alvo)
    ]_vars

\* C11 witness: U2 has pressed a button of an approval prompt and was refused,
\* while U1 is still pending with its prompt open.
C11_Witness ==
    /\ saida = Msg(U2, "apenas_admin")
    /\ status(usuarios, U1) = "pendente"
    /\ prompts[U1] > 0

\* C12: in every state the administrator passes the gate (eh_aprovado is true
\* for it) and neither the dict nor the file has a pending record for it.
C12_AdminSempreAprovado ==
    /\ eh_aprovado(usuarios, ADMIN_CHAT_ID)
    /\ Autoriza(usuarios, ADMIN_CHAT_ID) = "Allowed"
    /\ ADMIN_CHAT_ID \notin usuarios_pendentes(usuarios)
    /\ ADMIN_CHAT_ID \in DOMAIN usuarios.arquivo
         => usuarios.arquivo[ADMIN_CHAT_ID].status /= "pendente"

\* C12 witness: the administrator has sent /novo_alerta while the other
\* identities were pending, and is in the conversation.
C12_Witness ==
    /\ conv[ADMIN_CHAT_ID] = ORIGEM
    /\ usuarios_pendentes(usuarios) = NaoAdmin
    /\ saida = Msg(ADMIN_CHAT_ID, "escolha_origem")

(***************************************************************************)
(* Claims checked under SpecRegistro                                       *)
(***************************************************************************)
\* The position in the list s of the element that listar_usuario(chat_id) has at indice.
PosicaoNaLista(s, chat_id, indice) ==
    CHOOSE p \in 1..Len(s) :
        /\ s[p].chat_id = chat_id /\ s[p].ativo
        /\ Cardinality({j \in 1..(p - 1) : s[j].chat_id = chat_id /\ s[j].ativo}) = indice

\* The list s without its position p.
SemPosicao(s, p) == SubSeq(s, 1, p - 1) \o SubSeq(s, p + 1, Len(s))

\* The fields of the elements of a list, in order (what the file holds of it).
Campos(s) == [i \in 1..Len(s) |-> asdict(s[i])]

\* C6: when an owner removes with an index i, 0 <= i < the length of its list of
\* active alerts, the alerts that remain in memory and in the file are, fields
\* and order, those that were there without the one that the owner's list had at
\* position i -- also when several alerts have identical content.
C6_RemoveAPosicao ==
    [][\A u \in Donos, indice \in 0..MaxAlertasReg :
         (cb_remover(u, indice) /\ indice < Len(listar_usuario(gerenciador, u)))
         => LET resto == SemPosicao(gerenciador.alertas,
                                    PosicaoNaLista(gerenciador.alertas, u, indice))
            IN /\ Campos(gerenciador'.alertas) = Campos(resto)
               /\ gerenciador'.arquivo = Campos(resto)
    ]_vars

\* C7: when an owner removes with an index that is negative or not smaller than
\* the length of its list of active alerts, the answer is the failure message
\* and the list in memory and the file are as they were.
C7_IndiceInvalidoNaoMuda ==
    [][\A u \in Donos, indice \in (0 - 1)..MaxAlertasReg :
         (cb_remover(u, indice) /\ (indice < 0 \/ indice >= Len(listar_usuario(gerenciador, u))))
         => /\ gerenciador' = gerenciador
            /\ saida' = Msg(u, "erro_remover")
    ]_vars

\* C7 witness: U1, who has alerts, has been told that the removal failed, and
\* the file holds what the list holds.
C7_Witness ==
    /\ saida = Msg(U1, "erro_remover")
    /\ Len(listar_usuario(gerenciador, U1)) >= 2
    /\ gerenciador.arquivo = Campos(gerenciador.alertas)

(***************************************************************************)
(* Claims checked under SpecAgendador                                      *)
(***************************************************************************)
\* C3: when an alert's offers are the same in two consecutive passes of the
\* scheduler, its owner is not sent the offer message in both: no two messages
\* delivered for one alert in consecutive passes carry the same offers.
C3_UmaVezPorConjunto ==
    \A i, j \in DOMAIN enviadas :
        (/\ enviadas[i].oid = enviadas[j].oid
         /\ enviadas[j].tick = enviadas[i].tick + 1)
        => enviadas[j].ofertas /= enviadas[i].ofertas

\* The destinations that an evaluation of alerta queries.
Consultados(alerta) ==
    IF alerta.codigo_destino /= TODOS THEN {alerta.codigo_destino}
    ELSE AEROPORTOS \ {alerta.codigo_origem}

\* How many flights to d at price p the queries of an evaluation return.
Devolvidos(f, alerta, falhas, d, p) ==
    IF d \in Consultados(alerta) \ falhas /\ d \in DOMAIN f /\ p /= 0
    THEN Cardinality({i \in DOMAIN f[d] : f[d][i] = p})
    ELSE 0

\* How many flights to d at price p the list of offers holds.
Mantidos(ofertas, d, p) ==
    Cardinality({k \in DOMAIN ofertas : ofertas[k].destino = d /\ ofertas[k].preco = p})

\* The prices that occur in fonte.
Precos(f) == UNION {{f[d][i] : i \in DOMAIN f[d]} : d \in DOMAIN f}

\* C13: the offers that an evaluation keeps for an alert are flights that its
\* queries returned, each priced at or below the alert's ceiling, in ascending
\* order of price and at most 5; and when a returned flight within the ceiling
\* was not kept, 5 were kept and none of them costs more than it.
C13_MelhoresOfertas ==
    [][\A falhas \in {{}, AEROPORTOS} :
         ag_busca(falhas)
         => LET alerta == Head(ag_fila)
                ofertas == ag_ofertas'
            IN /\ Len(ofertas) <= 5
               /\ \A k \in DOMAIN ofertas : ofertas[k].preco <= alerta.preco_maximo
               /\ \A k \in 1..(Len(ofertas) - 1) : ofertas[k].preco <= ofertas[k + 1].preco
               /\ \A d \in AEROPORTOS, p \in Precos(fonte) \cup {ofertas[k].preco : k \in DOMAIN ofertas} :
                     /\ Mantidos(ofertas, d, p) <= Devolvidos(fonte, alerta, falhas, d, p)
                     /\ (p <= alerta.preco_maximo
                            /\ Mantidos(ofertas, d, p) < Devolvidos(fonte, alerta, falhas, d, p))
                          => /\ Len(ofertas) = 5
                             /\ \A k \in DOMAIN ofertas : ofertas[k].preco <= p
               /\ \A k \in DOMAIN ofertas : ofertas[k].destino \in AEROPORTOS
    ]_vars

\* C13 witness: of six flights within the ceiling of 600,00 the five cheapest
\* are kept for an alert to anywhere, the one at 600,00 is not.
C13_Witness ==
    /\ ag_pc = "envia"
    /\ Head(ag_fila).codigo_destino = TODOS
    /\ [k \in DOMAIN ag_ofertas |-> ag_ofertas[k].preco] = <<50000, 51000, 52000, 55000, 58000>>
    /\ fonte["CNF"] = <<52000, 60000, 0, 51000>>

\* C14: when, in a pass, the queries of an alert that has offers raise, or the
\* send of its message raises, the pass goes on: the thread is at the query of
\* the next alert of the snapshot, with the rest of the snapshot still to visit,
\* and sleeps only if the alert was the last.  An alert visited whose queries
\* return offers within its ceiling is sent them, and a pass is over only when
\* its snapshot is exhausted.
C14_FalhaNaoParaAPassagem ==
    /\ [][(\/ ag_envia(FALSE)
           \/ ag_busca(AEROPORTOS) /\ buscar_ofertas(fonte, Head(ag_fila), {}) /= <<>>)
          => /\ ag_fila' = Tail(ag_fila)
             /\ ag_tick' = ag_tick
             /\ ag_pc' = IF ag_fila' /= <<>> THEN "busca" ELSE "dorme"
         ]_vars
    /\ [][(ag_busca({}) /\ buscar_ofertas(fonte, Head(ag_fila), {}) /= <<>>)
          => ag_pc' = "envia" /\ ag_fila' = ag_fila
         ]_vars
    /\ [][ag_envia(TRUE)
          => /\ Len(enviadas') = Len(enviadas) + 1
             /\ enviadas'[Len(enviadas')].oid = Head(ag_fila).oid
             /\ enviadas'[Len(enviadas')].tick = ag_tick
         ]_vars
    /\ [](ag_pc = "dorme" <=> ag_fila = <<>>)

\* C14 witness: in pass 1 the send for the first alert of the snapshot raised,
\* and the offers of the second were delivered in the same pass.
C14_Witness ==
    /\ ag_tick = 1
    /\ perdidas = <<[oid |-> 0, tick |-> 1]>>
    /\ Len(enviadas) = 1
    /\ enviadas[1].oid = 1
    /\ enviadas[1].tick = 1

\* C15: a step that gives ultimo_alerta of an alert of the list another value
\* is the call of marcar_enviado by the scheduler, made after the message for
\* that alert was delivered in the same pass.  When the send raises, the list
\* and the file stay as they were, nothing counts as delivered, and the alert,
\* if it is in the list, is in what todos_ativos returns to the next pass.
C15_MarcaSoDepoisDoEnvio ==
    /\ [][(\E i \in DOMAIN gerenciador.alertas, j \in DOMAIN gerenciador'.alertas :
              /\ gerenciador.alertas[i].oid = gerenciador'.alertas[j].oid
              /\ gerenciador.alertas[i].ultimo_alerta /= gerenciador'.alertas[j].ultimo_alerta)
          => /\ ag_marca
             /\ enviadas /= <<>>
             /\ enviadas[Len(enviadas)].oid = Head(ag_fila).oid
             /\ enviadas[Len(enviadas)].tick = ag_tick
             /\ \A i \in DOMAIN gerenciador.alertas, j \in DOMAIN gerenciador'.alertas :
                   (/\ gerenciador.alertas[i].oid = gerenciador'.alertas[j].oid
                    /\ gerenciador.alertas[i].ultimo_alerta /= gerenciador'.alertas[j].ultimo_alerta)
                   => gerenciador.alertas[i].oid = Head(ag_fila).oid
         ]_vars
    /\ [][ag_envia(FALSE)
          => /\ gerenciador' = gerenciador
             /\ enviadas' = enviadas
             /\ \A i \in DOMAIN gerenciador.alertas :
                   gerenciador.alertas[i].oid = Head(ag_fila).oid
                   => \E k \in DOMAIN todos_ativos(gerenciador') :
                         /\ todos_ativos(gerenciador')[k].oid = Head(ag_fila).oid
                         /\ todos_ativos(gerenciador')[k].ultimo_alerta = gerenciador.alertas[i].ultimo_alerta
         ]_vars
    /\ [][ag_acorda => ag_fila' = todos_ativos(gerenciador)]_vars

\* C15 witness: the send for alert 0 raised in pass 1; in pass 2 the alert,
\* never marked, is visited again and has offers to send.
C15_Witness ==
    /\ perdidas = <<[oid |-> 0, tick |-> 1]>>
    /\ enviadas = <<>>
    /\ ag_tick = 2
    /\ ag_pc = "envia"
    /\ Head(ag_fila).oid = 0
    /\ \E i \in DOMAIN gerenciador.alertas :
          gerenciador.alertas[i].oid = 0 /\ gerenciador.alertas[i].ultimo_alerta = SemHora

\* C16: when the evaluation of an alert keeps no offer, no message is sent for
\* it (none delivered, none attempted), the list and the file stay as they
\* were, and the alert, if it is in the list, is active there; every alert of
\* the list is active, and a pass starts with all of them in its snapshot.
C16_SemOfertasNadaMuda ==
    /\ [][\A falhas \in {{}, AEROPORTOS} :
            (ag_busca(falhas) /\ buscar_ofertas(fonte, Head(ag_fila), falhas) = <<>>)
            => /\ enviadas' = enviadas
               /\ perdidas' = perdidas
               /\ saida' = saida
               /\ gerenciador' = gerenciador
               /\ ag_pc' /= "envia"
         ]_vars
    /\ [](\A i \in DOMAIN gerenciador.alertas : gerenciador.alertas[i].ativo)
    /\ [][ag_acorda
          => \A i \in DOMAIN gerenciador.alertas :
                \E k \in DOMAIN ag_fila' : ag_fila'[k] = gerenciador.alertas[i]
         ]_vars

\* C16 witness: pass 1 has visited alert 0 -- nothing delivered, no send that
\* raised -- and is at alert 1; alert 0 is in the list, active, never marked.
C16_Witness ==
    /\ ag_tick = 1
    /\ ag_pc = "busca"
    /\ Len(ag_fila) = 1
    /\ Head(ag_fila).oid = 1
    /\ enviadas = <<>>
    /\ perdidas = <<>>
    /\ gerenciador.alertas[1].oid = 0
    /\ gerenciador.alertas[1].ativo
    /\ gerenciador.alertas[1].ultimo_alerta = SemHora
    /\ gerenciador.arquivo = Campos(gerenciador.alertas)

\* The registry g with the alert oid as it was before it was ever marked.
NuncaMarcado(g, oid) ==
    [g EXCEPT !.alertas = [i \in 1..Len(g.alertas) |->
        IF g.alertas[i].oid = oid
        THEN [g.alertas[i] EXCEPT !.ultimo_alerta = SemHora]
        ELSE g.alertas[i]]]

\* C17: for every alert of the list and times t1 then t2, marcar_enviado at t1
\* and again at t2 gives the list and the file that marcar_enviado at t2 alone
\* gives, the alert having ultimo_alerta = t2 and every other field and alert
\* as before; and what the scheduler's call leaves in the list for an alert
\* marked before is what it would leave had the alert never been marked.
C17_MarcarDuasVezes ==
    /\ [](\A i \in DOMAIN gerenciador.alertas, t1 \in 0..relogio, t2 \in relogio..(relogio + 1) :
            LET oid == gerenciador.alertas[i].oid
                duas == marcar_enviado(marcar_enviado(gerenciador, oid, t1), oid, t2)
            IN /\ duas = marcar_enviado(gerenciador, oid, t2)
               /\ duas.alertas[i] = [gerenciador.alertas[i] EXCEPT !.ultimo_alerta = t2]
               /\ \A j \in DOMAIN gerenciador.alertas \ {i} : duas.alertas[j] = gerenciador.alertas[j]
               /\ Len(duas.alertas) = Len(gerenciador.alertas)
               /\ duas.arquivo = Campos(duas.alertas))
    /\ [][ag_marca
          => gerenciador'.alertas =
                marcar_enviado(NuncaMarcado(gerenciador, Head(ag_fila).oid), Head(ag_fila).oid, relogio).alertas
         ]_vars

\* C17 witness: alert 0 was marked in pass 1 and again in pass 2, and list and
\* file have the time of the second call.
C17_Witness ==
    /\ Len(enviadas) = 2
    /\ enviadas[1].oid = 0 /\ enviadas[1].tick = 1
    /\ enviadas[2].oid = 0 /\ enviadas[2].tick = 2
    /\ ag_pc = "dorme"
    /\ Len(gerenciador.alertas) = 1
    /\ gerenciador.alertas[1].oid = 0
    /\ gerenciador.alertas[1].ultimo_alerta = relogio - 1
    /\ gerenciador.alertas[1].ultimo_alerta > gerenciador.alertas[1].criado_em + 1
    /\ gerenciador.arquivo = Campos(gerenciador.alertas)

\* C18: whenever no write of the scheduler is under way, the file of alerts
\* holds the fields of the alerts of the list, in order, and the file of users
\* holds the dict of users: every addition, removal, marking, registration,
\* approval and denial that has returned is in the file.
C18_ArquivoIgualMemoria ==
    ag_pc /= "grava"
    => /\ gerenciador.arquivo = Campos(gerenciador.alertas)
       /\ usuarios.arquivo = usuarios.usuarios

\* C19: when the write of marcar_enviado ends, whatever adicionar or remover
\* ran since marcar_enviado began, list and file are those of the two
\* operations one after the other: the file holds the alerts of the list, an
\* alert added in between is in it, an alert removed in between is not.
C19_OperacoesAtomicas ==
    [][\A inteiro \in BOOLEAN :
         ag_grava(inteiro)
         => /\ gerenciador'.alertas = gerenciador.alertas
            /\ gerenciador'.arquivo = Campos(gerenciador.alertas)
    ]_vars


(***************************************************************************)
(* Claims checked under SpecFalha                                          *)
(***************************************************************************)
\* A step changed the alerts or the users in memory and left the file of
\* that store different from the memory, with no write of the scheduler
\* under way.
DeixaSemGravar ==
    \/ /\ gerenciador' /= gerenciador
       /\ ag_pc' /= "grava"
       /\ gerenciador'.arquivo /= Campos(gerenciador'.alertas)
    \/ /\ usuarios' /= usuarios
       /\ usuarios'.arquivo /= usuarios'.usuarios

\* C20: a write of a file that fails during adicionar, remover,
\* marcar_enviado, registrar, aprovar or negar reaches the caller as a
\* failure: a step that changes a store and leaves its file different from
\* the memory sends no message (no "alerta_criado", no "removido", no
\* notice of approval or denial) and neither ends nor advances a
\* conversation, so the operation is not reported as done.
C20_FalhaDeEscritaPropaga ==
    [][DeixaSemGravar => saida' = saida /\ conv' = conv /\ prompts' = prompts]_vars

\* The administrator sent the price, adicionar appended the alert and its
\* salvar raised after emptying the file: the alert is in memory only, the
\* conversation is still at PRECO and the scheduler has not run.
C20_Witness ==
    /\ conv[ADMIN_CHAT_ID] = PRECO
    /\ prox_oid = 1
    /\ Len(gerenciador.alertas) = 1
    /\ gerenciador.arquivo = <<>>
    /\ ag_tick = 0
    /\ ag_pc = "dorme"

(***************************************************************************)
(* Claims checked under SpecManual                                         *)
(***************************************************************************)
\* C21: in an evaluation asked with /verificar, when a request for the offers
\* of an alert of the owner fails, the reply for that alert is the error
\* report and not "no offer found" (stated for the last alert of the run,
\* whose reply is the last message sent).
C21_FalhaManualRelatada ==
    [][\A falhas \in FalhasManuais :
          ( /\ verificar_agora(ADMIN_CHAT_ID, falhas, TRUE)
            /\ listar_usuario(gerenciador, ADMIN_CHAT_ID) /= <<>>
            /\ Consultados(listar_usuario(gerenciador, ADMIN_CHAT_ID)
                               [Len(listar_usuario(gerenciador, ADMIN_CHAT_ID))]) \cap falhas /= {} )
          => saida'.texto = "erro_ao_buscar"
    ]_vars

(***************************************************************************)
(* Claims checked under Spec: the date, the destination, the command given *)
(* again, the fields kept                                                  *)
(***************************************************************************)
\* C22: in DATA a text that parses to today's date is refused like a past
\* date: the conversation stays in DATA and no date is stored.
C22_HojeRecusado ==
    [][\A texto \in TextosData :
          (strptime_ok(texto) /\ strptime(texto) = Hoje /\ receber_data(U1, texto))
          => conv'[U1] = DATA /\ "data" \notin DOMAIN user_data'[U1]
    ]_vars

\* C23: every alert of the registry has as destination TODOS or a code of
\* AEROPORTOS that is not its origin, whatever the menus the destination
\* buttons pressed belong to.
C23_DestinoValido ==
    \A i \in DOMAIN gerenciador.alertas :
        \/ gerenciador.alertas[i].codigo_destino = TODOS
        \/ /\ gerenciador.alertas[i].codigo_destino \in AEROPORTOS
           /\ gerenciador.alertas[i].codigo_destino /= gerenciador.alertas[i].codigo_origem

\* C24: while the conversation of an identity is in ORIGEM, DESTINO, DATA or
\* PRECO, the command /novo_alerta discards what was collected and puts the
\* conversation in ORIGEM.
C24_ComandoRecomeca ==
    conv[U1] \in Aguardando
    => ENABLED (comando_novo_alerta(U1) /\ conv'[U1] = ORIGEM /\ user_data'[U1] = Vazio)

\* C25: the fields collected for an alert are in user_data only while the
\* conversation of the identity is in ORIGEM, DESTINO, DATA or PRECO: once it
\* has ended, by the alert created or by /cancelar, none remains.
C25_SemCamposDepoisDoFim ==
    \A u \in Identidades : conv[u] = END => user_data[u] = Vazio

(***************************************************************************)
(* Claims checked under SpecAgendador: what a pass may change              *)
(***************************************************************************)
\* A step of the thread of loop_verificacao.
AgPasso ==
    \/ ag_acorda
    \/ \E falhas \in {{}, AEROPORTOS} : ag_busca(falhas)
    \/ \E ok \in BOOLEAN : ag_envia(ok)
    \/ ag_marca
    \/ \E inteiro \in BOOLEAN : ag_grava(inteiro)

\* A collection of alerts without the field ultimo_alerta.
SemUltimo(s) == [i \in DOMAIN s |-> [f \in DOMAIN s[i] \ {"ultimo_alerta"} |-> s[i][f]]]

\* C26: a pass of the scheduler adds no alert, removes none and changes no
\* field but ultimo_alerta, in the list and in the file: a step of the thread
\* leaves the list as it was but for ultimo_alerta; outside marcar_enviado it
\* leaves the file alone; and the file that marcar_enviado has written holds,
\* but for ultimo_alerta, the alerts of the registry.
C26_PassagemSoMarca ==
    [][AgPasso
       => /\ SemUltimo(gerenciador'.alertas) = SemUltimo(gerenciador.alertas)
          /\ ag_pc \notin {"marca", "grava"} => gerenciador'.arquivo = gerenciador.arquivo
          /\ ag_pc = "grava" => SemUltimo(gerenciador'.arquivo) = SemUltimo(Campos(gerenciador.alertas))
    ]_vars

\* C27: once cb_remover has removed an alert and answered, the thread sends
\* no offer message for it and calls no marcar_enviado for it, even in a pass
\* whose list of alerts was read before the removal: the alert of a send or
\* of a marcar_enviado is in the registry.
C27_RemovidoNaoNotifica ==
    [][(enviadas' /= enviadas \/ ag_marca)
       => \E i \in DOMAIN gerenciador.alertas : gerenciador.alertas[i].oid = Head(ag_fila).oid
    ]_vars

(***************************************************************************)
(* Claims checked under SpecVivo                                           *)
(***************************************************************************)
\* The offer message for the alert oid was delivered in pass t.
Notificado(oid, t) == \E k \in DOMAIN enviadas : enviadas[k].oid = oid /\ enviadas[k].tick = t

\* The alert oid is in the list of the registry.
NoRegistro(oid) == \E i \in DOMAIN gerenciador.alertas : gerenciador.alertas[i].oid = oid

\* C28: a failure inside a pass does not stop the loop.  With a thread that
\* keeps running, an alert that is in the registry when a pass is still to
\* start, and whose offers are within its ceiling, is notified in the pass
\* from which requests and sends no longer fail, unless it is removed first.
C28_NotificaMaisCedoOuMaisTarde ==
    \A oid \in 0..(MaxAlertasAg - 1) :
        (NoRegistro(oid) /\ fonte = FonteSimples /\ ag_tick < MaxTicks)
        ~> (Notificado(oid, MaxTicks) \/ ~NoRegistro(oid))

\* The send for the first alert raised in pass 1, and the alert, still in
\* the registry, was notified in the last pass.
C28_Witness ==
    /\ \E k \in DOMAIN perdidas : perdidas[k].oid = 0 /\ perdidas[k].tick = 1
    /\ NoRegistro(0)
    /\ Notificado(0, MaxTicks)
====
